---- MODULE Spec2Model ----
(***************************************************************************)
(* The ledger of codeguide-supabase-transactions-api: the PL/pgSQL         *)
(* function handle_payment (processPayment) running in concurrent          *)
(* PostgreSQL calls at READ COMMITTED over the tables users, balances,  *)
(* transactions and mutations.                                             *)
(*                                                                         *)
(* Money is counted in thousandths (0.001): 10 is 0.01, the smallest step  *)
(* of a NUMERIC(15,2) column, and 15 is 0.015, an amount with three        *)
(* fractional digits.                                                      *)
(***************************************************************************)
EXTENDS Integers, Sequences, FiniteSets, TLC

\* ---- bounds of the model -------------------------------------------------
MaxCalls == 2          \* invocations of handle_payment in one behaviour

\* The invocations, numbered in the order they are made; each runs in a
\* database call of its own, so any number of them may be in flight.
Calls == 1..MaxCalls

\* ---- the world the calls run in ------------------------------------------
AccountIds == {1, 2, 3, 4, 5}   \* identifiers a caller may present
Users == {1, 2, 3, 4}           \* rows of users; 5 is nobody's id
Banned == {4}                   \* rows of users with banned = true
ActiveUsers == Users \ Banned   \* rows of users with banned = false
Amounts == {-10, 0, 10, 15}     \* p_amount, in thousandths
Null == <<>>                    \* SQL NULL
Some(x) == <<x>>                \* a non-NULL value
Val(v) == v[1]
OrderIds == {Null, Some("A")}   \* p_orderid

\* COALESCE(v, d)
Coalesce(v, d) == IF v = Null THEN d ELSE Val(v)

\* Coercion of a NUMERIC value to a NUMERIC(15,2) column: rounds to two
\* decimals (a multiple of 10 thousandths), halves away from zero.
Round2(x) ==
    IF x >= 0 THEN ((x + 5) \div 10) * 10
    ELSE -(((-x + 5) \div 10) * 10)

VARIABLES
    balances,           \* committed rows of balances: user_id -> amount
    transactions,       \* committed rows of transactions, in commit order
    mutations,          \* committed rows of mutations, in commit order
    pc,                 \* where each call stands in handle_payment
    args,               \* the parameters of each call that passed lines 174-199
    v_sender_balance,   \* PL/pgSQL local, per call
    v_receiver_balance, \* PL/pgSQL local, per call
    locks,              \* balance rows each call holds FOR UPDATE
    pending,            \* uncommitted writes of each call's transaction
    result,             \* JSON each call returns
    timedout,           \* calls whose HTTP request was answered 'Request timeout'
    request,            \* the history request now between its two queries
    response,           \* the last response of an endpoint other than /api/pay
    metrics,            \* PerformanceMetrics.metrics: endpoint -> entry
    recorded            \* history: the samples recorded since the last reset

vars == <<balances, transactions, mutations, pc, args, v_sender_balance,
          v_receiver_balance, locks, pending, result, timedout, request,
          response, metrics, recorded>>

\* what the route handlers around handle_payment keep
api == <<timedout, request, response, metrics, recorded>>

persisted == <<balances, transactions, mutations>>

NoArgs == [cid |-> 0, sender |-> 0, receiver |-> 0, amount |-> 0, orderid |-> ""]
NoWrites == [bal |-> <<>>, trx |-> <<>>, mut |-> <<>>]
NoResult == [code |-> "NONE"]
Error(c) == [code |-> c]
NoRequest == [op |-> "none"]
NoResponse == [op |-> "none"]

\* The balances rows at the start: users 1 and 2 hold 0.03 and 0.01, user 3
\* has no balance row yet.
InitialBalances == (1 :> 30 @@ 2 :> 10)

Init ==
    /\ balances = InitialBalances
    /\ transactions = <<>>
    /\ mutations = <<>>
    /\ pc = [c \in Calls |-> "new"]
    /\ args = [c \in Calls |-> NoArgs]
    /\ v_sender_balance = [c \in Calls |-> Null]
    /\ v_receiver_balance = [c \in Calls |-> Null]
    /\ locks = [c \in Calls |-> {}]
    /\ pending = [c \in Calls |-> NoWrites]
    /\ result = [c \in Calls |-> NoResult]
    /\ timedout = {}
    /\ request = NoRequest
    /\ response = NoResponse
    /\ metrics = <<>>
    /\ recorded = <<>>

\* ---- handle_payment, lines 174-199: the checks before any lock ----------

\* 'TRX_' || to_char(now(), ...) || '_' || substr(gen_random_uuid()::text, 1, 8):
\* a fresh text per call, here built from the call's sequence number
GeneratedOrderId(cid) == "TRX_" \o ToString(cid)

\* v_final_orderid := COALESCE(p_orderid, <generated>)
FinalOrderId(orderid, cid) == Coalesce(orderid, GeneratedOrderId(cid))

OrderIdExists(o) == \E i \in 1..Len(transactions) : transactions[i].orderid = o

\* the users are looked up before the amount is examined
Validate_lookupfirst(s, r, a, o) ==
    IF s \notin ActiveUsers THEN "SENDER_NOT_FOUND"
    ELSE IF r \notin ActiveUsers THEN "RECEIVER_NOT_FOUND"
    ELSE IF a <= 0 THEN "INVALID_AMOUNT"
    ELSE IF s = r THEN "SELF_TRANSFER"
    ELSE IF OrderIdExists(o) THEN "DUPLICATE_ORDERID"
    ELSE "OK"

\* the sender is looked up before sender and receiver are compared
Validate_senderfirst(s, r, a, o) ==
    IF a <= 0 THEN "INVALID_AMOUNT"
    ELSE IF s \notin ActiveUsers THEN "SENDER_NOT_FOUND"
    ELSE IF s = r THEN "SELF_TRANSFER"
    ELSE IF r \notin ActiveUsers THEN "RECEIVER_NOT_FOUND"
    ELSE IF OrderIdExists(o) THEN "DUPLICATE_ORDERID"
    ELSE "OK"

\* sender and receiver are never compared
Validate_noself(s, r, a, o) ==
    IF a <= 0 THEN "INVALID_AMOUNT"
    ELSE IF s \notin ActiveUsers THEN "SENDER_NOT_FOUND"
    ELSE IF r \notin ActiveUsers THEN "RECEIVER_NOT_FOUND"
    ELSE IF OrderIdExists(o) THEN "DUPLICATE_ORDERID"
    ELSE "OK"

\* the users are looked up by id alone: banned is not examined
Validate_nobanned(s, r, a, o) ==
    IF a <= 0 THEN "INVALID_AMOUNT"
    ELSE IF s = r THEN "SELF_TRANSFER"
    ELSE IF s \notin Users THEN "SENDER_NOT_FOUND"
    ELSE IF r \notin Users THEN "RECEIVER_NOT_FOUND"
    ELSE IF OrderIdExists(o) THEN "DUPLICATE_ORDERID"
    ELSE "OK"

\* the checks of lines 174-191 alone: the order id is never looked up
Validate_nodup(s, r, a, o) ==
    IF a <= 0 THEN "INVALID_AMOUNT"
    ELSE IF s = r THEN "SELF_TRANSFER"
    ELSE IF s \notin ActiveUsers THEN "SENDER_NOT_FOUND"
    ELSE IF r \notin ActiveUsers THEN "RECEIVER_NOT_FOUND"
    ELSE "OK"

\* The code of the first failed precondition, "OK" when all pass.
Validate(s, r, a, o) ==
    IF a <= 0 THEN "INVALID_AMOUNT"
    ELSE IF s = r THEN "SELF_TRANSFER"
    ELSE IF s \notin ActiveUsers THEN "SENDER_NOT_FOUND"
    ELSE IF r \notin ActiveUsers THEN "RECEIVER_NOT_FOUND"
    ELSE IF OrderIdExists(o) THEN "DUPLICATE_ORDERID"
    ELSE "OK"

\* A call invokes handle_payment(s, r, a, oid) and runs lines 174-199.
Begin(c, s, r, a, oid) ==
    /\ pc[c] = "new"
    /\ \A q \in 1..(c - 1) : pc[q] # "new"
    /\ LET o == FinalOrderId(oid, c)
           v == Validate(s, r, a, o)
       IN IF v = "OK"
          THEN /\ pc' = [pc EXCEPT ![c] = "lock_sender"]
               /\ args' = [args EXCEPT ![c] =
                     [cid |-> c, sender |-> s, receiver |-> r,
                      amount |-> a, orderid |-> o]]
               /\ UNCHANGED result
          ELSE /\ pc' = [pc EXCEPT ![c] = "done"]
               /\ result' = [result EXCEPT ![c] = Error(v)]
               /\ UNCHANGED args
    /\ UNCHANGED <<persisted, v_sender_balance, v_receiver_balance, locks, pending,
                   api>>

\* ---- lines 201-204: SELECT amount INTO ... FOR UPDATE -------------------

\* a SELECT without FOR UPDATE: no row is ever held against the reader
LockedByOther_none(c, u) == FALSE

\* another call holds user u's balance row FOR UPDATE
LockedByOther(c, u) == \E q \in Calls \ {c} : u \in locks[q]

\* a read that takes the balance of a user without a row to be 0
SelectForUpdate_zero(c, u) ==
    IF u \in DOMAIN balances
    THEN [amount |-> Some(balances[u]), rows |-> {u}]
    ELSE [amount |-> Some(0), rows |-> {}]

\* SELECT ... FOR UPDATE of user u's balance row: waits while another
\* call holds the row, then reads the committed amount and holds the row;
\* finds nothing, and locks nothing, when there is no committed row.
SelectForUpdate(c, u) ==
    IF u \in DOMAIN balances
    THEN [amount |-> Some(balances[u]), rows |-> {u}]
    ELSE [amount |-> Null, rows |-> {}]

\* line 203
LockSender(c) ==
    /\ pc[c] = "lock_sender"
    /\ ~LockedByOther(c, args[c].sender)
    /\ LET sel == SelectForUpdate(c, args[c].sender)
       IN /\ v_sender_balance' = [v_sender_balance EXCEPT ![c] = sel.amount]
          /\ locks' = [locks EXCEPT ![c] = @ \cup sel.rows]
    /\ pc' = [pc EXCEPT ![c] = "lock_receiver"]
    /\ UNCHANGED <<persisted, args, v_receiver_balance, pending, result, api>>

\* line 204
LockReceiver(c) ==
    /\ pc[c] = "lock_receiver"
    /\ ~LockedByOther(c, args[c].receiver)
    /\ LET sel == SelectForUpdate(c, args[c].receiver)
       IN /\ v_receiver_balance' = [v_receiver_balance EXCEPT ![c] = sel.amount]
          /\ locks' = [locks EXCEPT ![c] = @ \cup sel.rows]
    /\ pc' = [pc EXCEPT ![c] = "write"]
    /\ UNCHANGED <<persisted, args, v_sender_balance, pending, result, api>>

\* ---- lines 206-278: funds check and the five writes ---------------------

\* A transaction row as line 236-242 inserts it; amount and grandtotal are
\* NUMERIC(15,2) columns.
TransactionRow(a) ==
    [id |-> a.cid, sender_id |-> a.sender, receiver_id |-> a.receiver,
     amount |-> Round2(a.amount), paid |-> TRUE, orderid |-> a.orderid,
     grandtotal |-> Round2(a.amount)]

\* both inserts written with the type of the first
MutationRow_debit(u, bal, prev, type, cid) ==
    [user_id |-> u, balance |-> Round2(bal), prev_balance |-> Round2(prev),
     type |-> "debit", transaction_id |-> cid]

\* A mutation row as lines 245-268 insert it; balance and prev_balance are
\* NUMERIC(15,2) columns.
MutationRow(u, bal, prev, type, cid) ==
    [user_id |-> u, balance |-> Round2(bal), prev_balance |-> Round2(prev),
     type |-> type, transaction_id |-> cid]

\* v_receiver_balance after lines 225-233: the locked amount, or p_amount
\* when the row is created (line 232)
ReceiverBalanceAfterCredit(vrb, amount) ==
    IF vrb # Null THEN Val(vrb) ELSE amount

\* The uncommitted writes of call c after the first k of the five write
\* statements (1 = debit, 2 = credit, 3 = transaction, 4 = debit mutation,
\* 5 = credit mutation).
WritesUpTo(c, k) ==
    LET a == args[c]
        vsb == Val(v_sender_balance[c])
        vrb == v_receiver_balance[c]
        debit == (a.sender :> Round2(balances[a.sender] - a.amount))
        credit == IF vrb # Null
                  THEN (a.receiver :> Round2(balances[a.receiver] + a.amount))
                  ELSE (a.receiver :> Round2(a.amount))
        m1 == MutationRow(a.sender, vsb - a.amount, vsb, "debit", a.cid)
        m2 == MutationRow(a.receiver,
                          ReceiverBalanceAfterCredit(vrb, a.amount) + a.amount,
                          Coalesce(vrb, 0), "credit", a.cid)
    IN [bal |-> IF k >= 2 THEN credit @@ debit
                ELSE IF k >= 1 THEN debit ELSE <<>>,
        trx |-> IF k >= 3 THEN <<TransactionRow(a)>> ELSE <<>>,
        mut |-> IF k >= 5 THEN <<m1, m2>>
                ELSE IF k >= 4 THEN <<m1>> ELSE <<>>]

\* the schema without UNIQUE on transactions.orderid
ConstraintViolated_nounique(c, k) ==
    LET a == args[c]
    IN \/ k = 2 /\ v_receiver_balance[c] = Null /\ a.receiver \in DOMAIN balances
       \/ k = 3 /\ Round2(a.amount) <= 0

\* Write statement k of call c violates a constraint of the schema:
\* the primary key of balances (line 30), the UNIQUE orderid (line 43) or
\* CHECK (amount > 0) on the NUMERIC(15,2) amount (line 40).
ConstraintViolated(c, k) ==
    LET a == args[c]
    IN \/ k = 2 /\ v_receiver_balance[c] = Null /\ a.receiver \in DOMAIN balances
       \/ k = 3 /\ OrderIdExists(a.orderid)
       \/ k = 3 /\ Round2(a.amount) <= 0

\* The first write statement that raises, 0 when none does; fault is the
\* statement at which the storage engine fails unexpectedly (0: nowhere).
FailAt(c, fault) ==
    LET bad == {k \in 1..5 : ConstraintViolated(c, k) \/ fault = k}
    IN IF bad = {} THEN 0 ELSE CHOOSE k \in bad : \A j \in bad : k <= j

\* Session q has inserted, and not yet committed, a row that write
\* statement k of call c conflicts with: the statement waits for q.
WaitsForInsert(c, k) ==
    \E q \in Calls \ {c} :
        \/ /\ k = 2
           /\ v_receiver_balance[c] = Null
           /\ args[c].receiver \in DOMAIN pending[q].bal
           /\ args[c].receiver \notin locks[q]
        \/ /\ k = 3
           /\ Len(pending[q].trx) > 0
           /\ pending[q].trx[1].orderid = args[c].orderid

\* a handler outside the block that wrote: the writes stay
Rollback_keep(w) == w

\* EXCEPTION WHEN OTHERS (lines 280-287): the block's writes are undone
Rollback(w) == NoWrites

Success(c) ==
    LET a == args[c]
    IN [code |-> "SUCCESS", transaction_id |-> a.cid, orderid |-> a.orderid,
        amount |-> a.amount,
        sender_new_balance |-> Val(v_sender_balance[c]) - a.amount,
        receiver_new_balance |->
            ReceiverBalanceAfterCredit(v_receiver_balance[c], a.amount) + a.amount]

\* no funds check at all
InsufficientFunds_never(vsb, amount) == FALSE

\* a check that the sender has money at all
InsufficientFunds_positive(vsb, amount) == vsb <= 0

\* line 211: v_sender_balance < p_amount
InsufficientFunds(vsb, amount) == vsb < amount

\* The call returns: its statement ends, its transaction commits what is
\* pending and gives up its row locks, and its locals are gone.
Return(c, w) ==
    /\ balances' = w.bal @@ balances
    /\ transactions' = transactions \o w.trx
    /\ mutations' = mutations \o w.mut
    /\ pc' = [pc EXCEPT ![c] = "done"]
    /\ args' = [args EXCEPT ![c] = NoArgs]
    /\ v_sender_balance' = [v_sender_balance EXCEPT ![c] = Null]
    /\ v_receiver_balance' = [v_receiver_balance EXCEPT ![c] = Null]
    /\ locks' = [locks EXCEPT ![c] = {}]
    /\ pending' = [pending EXCEPT ![c] = NoWrites]
    /\ UNCHANGED api

\* lines 206-287 in one step: nothing a call writes is visible to, or
\* depends on, another call before it commits.  A call that fails has
\* nothing to commit and returns in the same step.
Write(c, fault) ==
    /\ pc[c] = "write"
    /\ IF v_sender_balance[c] = Null
       THEN /\ result' = [result EXCEPT ![c] = Error("SENDER_BALANCE_NOT_FOUND")]
            /\ Return(c, pending[c])
       ELSE IF InsufficientFunds(Val(v_sender_balance[c]), args[c].amount)
       THEN /\ result' = [result EXCEPT ![c] = Error("INSUFFICIENT_FUNDS")]
            /\ Return(c, pending[c])
       ELSE LET f == FailAt(c, fault)
                last == IF f = 0 THEN 5 ELSE f
            IN /\ \A k \in 1..last : ~WaitsForInsert(c, k)
               /\ IF f = 0
                  THEN /\ pending' = [pending EXCEPT ![c] = WritesUpTo(c, 5)]
                       /\ result' = [result EXCEPT ![c] = Success(c)]
                       /\ v_receiver_balance' = [v_receiver_balance EXCEPT ![c] =
                             Some(ReceiverBalanceAfterCredit(@, args[c].amount))]
                       /\ pc' = [pc EXCEPT ![c] = "commit"]
                       /\ UNCHANGED <<persisted, args, v_sender_balance, locks, api>>
                  ELSE /\ result' = [result EXCEPT ![c] = Error("DATABASE_ERROR")]
                       /\ Return(c, Rollback(WritesUpTo(c, f - 1)))

\* The successful call returns (lines 270-278).
Commit(c) ==
    /\ pc[c] = "commit"
    /\ Return(c, pending[c])
    /\ UNCHANGED result

\* ---- deadlock between calls waiting at line 204 ----------------------

\* the call, if any, that holds the row call c waits for at line 204
Holder(c) ==
    {q \in Calls \ {c} : pc[c] = "lock_receiver" /\ args[c].receiver \in locks[q]}

RECURSIVE WaitChain(_, _)
\* the calls c waits for, directly or through up to n others
WaitChain(c, n) ==
    IF n = 0 THEN {}
    ELSE Holder(c) \cup UNION {WaitChain(q, n - 1) : q \in Holder(c)}

\* a server without a deadlock detector
Deadlocked_never(c) == FALSE

Deadlocked(c) == c \in WaitChain(c, MaxCalls)

\* PostgreSQL's deadlock detector ends the wait of one call of a cycle
\* with an error, which WHEN OTHERS (lines 280-287) turns into DATABASE_ERROR.
DeadlockAbort(c) ==
    /\ Deadlocked(c)
    /\ result' = [result EXCEPT ![c] = Error("DATABASE_ERROR")]
    /\ Return(c, Rollback(pending[c]))

Next ==
    \/ \E c \in Calls, s \in AccountIds, r \in AccountIds, a \in Amounts,
          oid \in OrderIds : Begin(c, s, r, a, oid)
    \/ \E c \in Calls : LockSender(c)
    \/ \E c \in Calls : LockReceiver(c)
    \/ \E c \in Calls, fault \in 0..5 : Write(c, fault)
    \/ \E c \in Calls : Commit(c)
    \/ \E c \in Calls : DeadlockAbort(c)

Spec == Init /\ [][Next]_vars

\* ---- N concurrent calls that debit the same sender ----------------------

BatchAmounts == {10, 15, 20}    \* p_amount of the calls of a batch

\* Every call has been invoked with a generated order id, has passed lines
\* 174-199 and stands before line 203; all calls name the same sender, who
\* has a balance row.
InitSameSender ==
    /\ balances = InitialBalances
    /\ transactions = <<>>
    /\ mutations = <<>>
    /\ pc = [c \in Calls |-> "lock_sender"]
    /\ \E s \in DOMAIN InitialBalances :
       \E rs \in [Calls -> ActiveUsers \ {s}] :
       \E as \in [Calls -> BatchAmounts] :
          args = [c \in Calls |->
                    [cid |-> c, sender |-> s, receiver |-> rs[c],
                     amount |-> as[c], orderid |-> FinalOrderId(Null, c)]]
    /\ v_sender_balance = [c \in Calls |-> Null]
    /\ v_receiver_balance = [c \in Calls |-> Null]
    /\ locks = [c \in Calls |-> {}]
    /\ pending = [c \in Calls |-> NoWrites]
    /\ result = [c \in Calls |-> NoResult]
    /\ timedout = {}
    /\ request = NoRequest
    /\ response = NoResponse
    /\ metrics = <<>>
    /\ recorded = <<>>

NextSameSender ==
    \/ \E c \in Calls : LockSender(c)
    \/ \E c \in Calls : LockReceiver(c)
    \/ \E c \in Calls, fault \in 0..5 : Write(c, fault)
    \/ \E c \in Calls : Commit(c)

SpecSameSender == InitSameSender /\ [][NextSameSender]_vars

\* ==== properties ==========================================================

Returns(c) == pc[c] # "done" /\ pc'[c] = "done"
Succeeds(c) == pc[c] = "commit" /\ pc'[c] = "done"
Fails(c) == Returns(c) /\ ~Succeeds(c)
NothingPersisted == persisted' = persisted

\* the step persists the five writes of call c: the sender's row debited,
\* the receiver's row credited or created, one transaction row and the
\* debit and credit mutation rows of that transaction, and nothing else
AllFivePersisted(c) ==
    LET a == args[c]
        n == Len(transactions)
        m == Len(mutations)
    IN /\ DOMAIN balances' = DOMAIN balances \cup {a.receiver}
       /\ \A u \in DOMAIN balances \ {a.sender, a.receiver} : balances'[u] = balances[u]
       /\ balances'[a.sender] = Round2(balances[a.sender] - a.amount)
       /\ balances'[a.receiver] =
             Round2((IF a.receiver \in DOMAIN balances
                     THEN balances[a.receiver] ELSE 0) + a.amount)
       /\ Len(transactions') = n + 1
       /\ SubSeq(transactions', 1, n) = transactions
       /\ transactions'[n + 1].id = c
       /\ Len(mutations') = m + 2
       /\ SubSeq(mutations', 1, m) = mutations
       /\ {<<mutations'[i].type, mutations'[i].transaction_id>> : i \in {m + 1, m + 2}}
             = {<<"debit", c>>, <<"credit", c>>}

\* C1: handle_payment is all-or-nothing: every step of the system either
\* leaves balances, transactions and mutations as they are or persists all
\* five writes of one call, and a call that returns DATABASE_ERROR after a
\* persistence error at any write statement persists nothing.
C1_AllOrNothing ==
    [][ /\ NothingPersisted \/ \E c \in Calls : Succeeds(c) /\ AllFivePersisted(c)
        /\ \A c \in Calls :
              Returns(c) /\ result'[c].code = "DATABASE_ERROR" => NothingPersisted
      ]_vars

\* a call has failed with DATABASE_ERROR and another has succeeded
C1_Witness ==
    \E c, d \in Calls :
        /\ pc[c] = "done" /\ result[c].code = "DATABASE_ERROR"
        /\ pc[d] = "done" /\ result[d].code = "SUCCESS"

\* C2: every persisted balance amount is >= 0.
C2_NonNegativeBalances == \A u \in DOMAIN balances : balances[u] >= 0

\* a payment has been committed that left its sender with nothing
C2_Witness ==
    \E i \in 1..Len(transactions) :
        /\ transactions[i].sender_id \in DOMAIN balances
        /\ balances[transactions[i].sender_id] = 0
        /\ \E c \in Calls : result[c].code = "INSUFFICIENT_FUNDS"

\* the funds check of call c is decided in this step (lines 206-213)
Decided(c) == pc[c] = "write" /\ pc'[c] # "write"

\* C3, as the specification states it: the calls that succeed are a prefix
\* of the calls in commit order, so once one call of the batch has failed
\* with INSUFFICIENT_FUNDS no later call of the batch succeeds.
C3_SucceedingPrefix ==
    [][ \A c, d \in Calls :
           pc[d] = "done" /\ result[d].code = "INSUFFICIENT_FUNDS" /\ Decided(c)
              => result'[c].code # "SUCCESS"
      ]_vars

\* C3, amended: each call of the batch fails with INSUFFICIENT_FUNDS exactly
\* when its amount exceeds the balance that the calls committed before it
\* have left the sender, otherwise it succeeds (or meets a storage error),
\* and the sender's balance is never negative.
C3_FundsDecideInCommitOrder ==
    [][ \A c \in Calls :
           Decided(c) =>
              LET left == balances[args[c].sender]
              IN /\ result'[c].code = "INSUFFICIENT_FUNDS" <=> args[c].amount > left
                 /\ result'[c].code \in {"SUCCESS", "DATABASE_ERROR"}
                       <=> args[c].amount <= left
                 /\ \A u \in DOMAIN balances' : balances'[u] >= 0
      ]_vars

\* all calls of the batch have returned, one of them paid and another was
\* refused for insufficient funds
C3_Witness ==
    /\ \A c \in Calls : pc[c] = "done"
    /\ \E c, d \in Calls :
          result[c].code = "SUCCESS" /\ result[d].code = "INSUFFICIENT_FUNDS"

BalanceOf(b, u) == IF u \in DOMAIN b THEN b[u] ELSE 0

RECURSIVE NetReceived(_, _)
\* what the transactions ts paid to account u minus what they took from it
NetReceived(ts, u) ==
    IF ts = <<>> THEN 0
    ELSE (IF Head(ts).receiver_id = u THEN Head(ts).amount ELSE 0)
         - (IF Head(ts).sender_id = u THEN Head(ts).amount ELSE 0)
         + NetReceived(Tail(ts), u)

\* C4: each account's persisted balance is its initial balance plus the
\* amounts of the committed payments it received minus the amounts of the
\* committed payments it sent (no lost update).
C4_NoLostUpdate ==
    \A u \in AccountIds :
        BalanceOf(balances, u) =
            BalanceOf(InitialBalances, u) + NetReceived(transactions, u)

\* C5: no two calls ever wait for each other's balance-row lock.
C5_NoCircularWait == \A c \in Calls : ~Deadlocked(c)

\* C6: a successful call leaves the sender with its balance before the call
\* minus amount, not negative, and the receiver with its balance before the
\* call (zero without a row) plus amount.
C6_SuccessBalances ==
    [][ \A c \in Calls :
           Succeeds(c) =>
              LET a == args[c]
              IN /\ balances'[a.sender] = balances[a.sender] - a.amount
                 /\ balances'[a.receiver] = BalanceOf(balances, a.receiver) + a.amount
                 /\ balances'[a.sender] >= 0
      ]_vars

RECURSIVE Total(_, _)
\* the sum of the balances b of the accounts in S
Total(b, S) ==
    IF S = {} THEN 0
    ELSE LET u == CHOOSE x \in S : TRUE
         IN BalanceOf(b, u) + Total(b, S \ {u})

\* C7: the sum of all balances is the same before and after every call, and
\* what the sender loses is what the receiver gains.
C7_NetsToZero ==
    [][ /\ Total(balances', AccountIds) = Total(balances, AccountIds)
        /\ \A c \in Calls :
              Succeeds(c) =>
                 balances[args[c].sender] - balances'[args[c].sender]
                    = balances'[args[c].receiver]
                         - BalanceOf(balances, args[c].receiver)
      ]_vars

\* the mutation rows of ms that reference transaction id
MutationsOf(ms, id) == {j \in 1..Len(ms) : ms[j].transaction_id = id}

\* every transaction of the ledger ts has exactly two mutations in ms, a
\* debit owned by its sender and a credit owned by its receiver, no
\* mutation is without a transaction and no transaction id occurs twice
LedgerPaired(ts, ms) ==
    /\ \A i \in 1..Len(ts) :
          LET of == MutationsOf(ms, ts[i].id)
          IN /\ Cardinality(of) = 2
             /\ \E j \in of : ms[j].type = "debit" /\ ms[j].user_id = ts[i].sender_id
             /\ \E j \in of : ms[j].type = "credit" /\ ms[j].user_id = ts[i].receiver_id
    /\ \A j \in 1..Len(ms) : \E i \in 1..Len(ts) : ts[i].id = ms[j].transaction_id
    /\ \A i, k \in 1..Len(ts) : ts[i].id = ts[k].id => i = k

\* C8: every transaction record has exactly two mutation records, one debit
\* of its sender and one credit of its receiver; a successful call adds one
\* transaction and two mutations, a failed call adds none.
C8_PairedMutations ==
    [][ /\ LedgerPaired(transactions', mutations')
        /\ \A c \in Calls :
              /\ Succeeds(c) =>
                    /\ Len(transactions') = Len(transactions) + 1
                    /\ Len(mutations') = Len(mutations) + 2
              /\ Fails(c) =>
                    /\ transactions' = transactions
                    /\ mutations' = mutations
      ]_vars

\* a payment is in the ledger and another call has failed
C8_Witness ==
    /\ Len(transactions) > 0
    /\ Len(mutations) = 2 * Len(transactions)
    /\ \E c \in Calls : pc[c] = "done" /\ result[c].code \notin {"NONE", "SUCCESS"}

\* C9: for every transaction of the ledger the debit mutation's
\* (balance - prev_balance) is -amount and the credit mutation's is +amount.
C9_MutationDeltas ==
    \A i \in 1..Len(transactions) :
        \A j \in MutationsOf(mutations, transactions[i].id) :
            mutations[j].balance - mutations[j].prev_balance =
                IF mutations[j].type = "debit"
                THEN -transactions[i].amount ELSE transactions[i].amount

\* C10: the mutations of a successful call record the persisted balances:
\* the debit has prev_balance = the sender's balance before the call and
\* balance = the sender's balance after it, the credit has prev_balance =
\* the receiver's balance before the call (0 without a row) and balance =
\* the receiver's balance after it.
C10_MutationsRecordBalances ==
    [][ \A c \in Calls :
           Succeeds(c) =>
              \A j \in MutationsOf(mutations', c) :
                 LET u == mutations'[j].user_id
                 IN /\ u = IF mutations'[j].type = "debit"
                           THEN args[c].sender ELSE args[c].receiver
                    /\ mutations'[j].prev_balance = BalanceOf(balances, u)
                    /\ mutations'[j].balance = balances'[u]
      ]_vars

\* ---- the result of a call and its order id -----------------------------

\* C11: the result of a successful call carries the id of the transaction
\* record it created, the resolved order id and the amount, and reports as
\* the sender's and the receiver's new balance exactly the amounts that the
\* call leaves persisted in their balance rows, whether the receiver's row
\* existed before or was created by the call.
C11_ResultReportsPersisted ==
    [][ \A c \in Calls :
           Succeeds(c) =>
              LET a == args[c]
                  t == transactions'[Len(transactions')]
              IN /\ result[c].transaction_id = t.id
                 /\ result[c].orderid = t.orderid
                 /\ result[c].orderid = a.orderid
                 /\ result[c].amount = a.amount
                 /\ result[c].sender_new_balance = balances'[a.sender]
                 /\ result[c].receiver_new_balance = balances'[a.receiver]
      ]_vars

\* C12: when a payment with an explicit order id has been committed and the
\* same call (same sender, receiver, amount and order id) is made again, the
\* second call fails with DUPLICATE_ORDERID, persists nothing, and the order
\* id still names exactly one transaction: the effect is applied once.
C12_SecondCallIsDuplicate ==
    [][ \A c \in Calls :
           pc[c] = "new" /\ pc'[c] # "new" =>
              \A i \in 1..Len(transactions) : \A a \in Amounts :
                 LET t == transactions[i]
                 IN /\ Some(t.orderid) \in OrderIds
                    /\ Round2(a) = t.amount
                    /\ Begin(c, t.sender_id, t.receiver_id, a, Some(t.orderid))
                    => /\ result'[c].code = "DUPLICATE_ORDERID"
                       /\ pc'[c] = "done"
                       /\ NothingPersisted
                       /\ Cardinality({j \in 1..Len(transactions') :
                             transactions'[j].orderid = t.orderid}) = 1
      ]_vars

\* a payment under an explicit order id is committed, with its two
\* mutations, and a later call was refused as a duplicate of it
C12_Witness ==
    /\ Len(transactions) = 1
    /\ Len(mutations) = 2
    /\ Some(transactions[1].orderid) \in OrderIds
    /\ \E c \in Calls : pc[c] = "done" /\ result[c].code = "DUPLICATE_ORDERID"

\* C13: no two transaction records share an order id, whether the order
\* ids were supplied by the callers or generated.
C13_OrderIdsUnique ==
    \A i, j \in 1..Len(transactions) :
        transactions[i].orderid = transactions[j].orderid => i = j

\* two payments are committed, one under an order id its caller supplied
C13_Witness ==
    /\ Len(transactions) = 2
    /\ \E i \in 1..2 : Some(transactions[i].orderid) \in OrderIds

\* C14: of two concurrent calls carrying the same explicit order id one
\* succeeds and the other fails with DUPLICATE_ORDERID and persists
\* nothing: a call that holds its locks, has the funds, and comes to its
\* writes when the other call has committed the order id is refused with
\* DUPLICATE_ORDERID and no other code.
C14_ConcurrentDuplicateRefused ==
    [][ \A c \in Calls :
           /\ Decided(c)
           /\ Some(args[c].orderid) \in OrderIds
           /\ OrderIdExists(args[c].orderid)
           /\ v_sender_balance[c] # Null
           /\ ~InsufficientFunds(Val(v_sender_balance[c]), args[c].amount)
           => /\ result'[c].code = "DUPLICATE_ORDERID"
              /\ NothingPersisted
      ]_vars

\* C15: a call whose amount exceeds the balance held in the sender's locked
\* row fails with INSUFFICIENT_FUNDS, and a call that fails with
\* INSUFFICIENT_FUNDS gives up its row locks and leaves balances,
\* transactions and mutations as they were.
C15_InsufficientFundsNoEffect ==
    [][ \A c \in Calls :
           /\ ( /\ Decided(c)
                /\ args[c].sender \in locks[c]
                /\ args[c].amount > balances[args[c].sender]
                => result'[c].code = "INSUFFICIENT_FUNDS" )
           /\ ( Returns(c) /\ result'[c].code = "INSUFFICIENT_FUNDS"
                => /\ NothingPersisted
                   /\ locks'[c] = {}
                   /\ pending'[c] = NoWrites )
      ]_vars

\* a call was refused for insufficient funds, holds no lock, and nothing
\* has been written since the initial state
C15_Witness ==
    /\ \E c \in Calls :
          pc[c] = "done" /\ result[c].code = "INSUFFICIENT_FUNDS" /\ locks[c] = {}
    /\ balances = InitialBalances
    /\ transactions = <<>>
    /\ mutations = <<>>

\* ---- the precondition checks -------------------------------------------

\* the failure codes of the validation and referential checks
AdmissionCodes ==
    {"INVALID_AMOUNT", "SELF_TRANSFER", "SENDER_NOT_FOUND", "RECEIVER_NOT_FOUND"}

\* C16: a call that fails with INVALID_AMOUNT, SELF_TRANSFER,
\* SENDER_NOT_FOUND or RECEIVER_NOT_FOUND returns before it has requested a
\* row lock, and no lock, pending write, balance, transaction or mutation
\* changes; and a call whose amount is zero or negative fails with
\* INVALID_AMOUNT whoever its sender and receiver are.
C16_AdmissionBeforeLocks ==
    /\ [][ \A c \in Calls :
              Returns(c) /\ result'[c].code \in AdmissionCodes
                 => /\ pc[c] = "new"
                    /\ locks[c] = {}
                    /\ locks' = locks
                    /\ pending' = pending
                    /\ NothingPersisted
         ]_vars
    /\ [](\A c \in Calls : \A s, r \in AccountIds : \A a \in Amounts :
             \A oid \in OrderIds :
                pc[c] = "new" /\ a <= 0 =>
                   ~ENABLED ( /\ Begin(c, s, r, a, oid)
                              /\ ~( /\ result'[c].code = "INVALID_AMOUNT"
                                    /\ pc'[c] = "done" ) ))

\* one call was refused for its amount and another for an account that is
\* not there, and nothing is locked or written
C16_Witness ==
    /\ \E c, d \in Calls :
          /\ pc[c] = "done" /\ result[c].code = "INVALID_AMOUNT"
          /\ pc[d] = "done"
          /\ result[d].code \in {"SENDER_NOT_FOUND", "RECEIVER_NOT_FOUND"}
    /\ \A c \in Calls : locks[c] = {}
    /\ persisted = <<InitialBalances, <<>>, <<>>>>

\* the precondition checks in the order in which they are to be made
CheckOrder ==
    <<"INVALID_AMOUNT", "SELF_TRANSFER", "SENDER_NOT_FOUND", "RECEIVER_NOT_FOUND",
      "DUPLICATE_ORDERID", "SENDER_BALANCE_NOT_FOUND", "INSUFFICIENT_FUNDS">>

\* check k is violated by a call of s, r, a under order id o that read vsb
\* as the sender's balance
CheckViolated(k, s, r, a, o, vsb) ==
    CASE k = 1 -> a <= 0
      [] k = 2 -> s = r
      [] k = 3 -> s \notin Users \/ s \in Banned
      [] k = 4 -> r \notin Users \/ r \in Banned
      [] k = 5 -> \E i \in 1..Len(transactions) : transactions[i].orderid = o
      [] k = 6 -> vsb = Null
      [] k = 7 -> vsb # Null /\ Val(vsb) < a

\* the code of the first violated check among checks lo..hi, "OK" if none
FirstViolated(lo, hi, s, r, a, o, vsb) ==
    LET bad == {k \in lo..hi : CheckViolated(k, s, r, a, o, vsb)}
    IN IF bad = {} THEN "OK"
       ELSE CheckOrder[CHOOSE k \in bad : \A j \in bad : k <= j]

\* C17: the checks are made in the order INVALID_AMOUNT, SELF_TRANSFER,
\* SENDER_NOT_FOUND, RECEIVER_NOT_FOUND, DUPLICATE_ORDERID,
\* SENDER_BALANCE_NOT_FOUND, INSUFFICIENT_FUNDS and a call returns the one
\* code of the first check it violates: on invocation every call with the
\* same inputs in the same state returns the code of the first violated of
\* the first five checks, or goes on to lock the rows when none is; once
\* the rows are locked it returns the code of the first violated of the
\* last two, and otherwise comes to its writes.
C17_FirstViolatedCheck ==
    /\ [](\A c \in Calls : \A s, r \in AccountIds : \A a \in Amounts :
             \A oid \in OrderIds :
                pc[c] = "new" =>
                   LET code == FirstViolated(1, 5, s, r, a, FinalOrderId(oid, c), Null)
                   IN ~ENABLED ( /\ Begin(c, s, r, a, oid)
                                 /\ ~ IF code = "OK"
                                      THEN pc'[c] = "lock_sender" /\ result'[c] = NoResult
                                      ELSE pc'[c] = "done" /\ result'[c] = [code |-> code] ))
    /\ [][ \A c \in Calls :
              Decided(c) =>
                 LET a == args[c]
                     code == FirstViolated(6, 7, a.sender, a.receiver, a.amount,
                                           a.orderid, v_sender_balance[c])
                 IN /\ FirstViolated(1, 4, a.sender, a.receiver, a.amount,
                                     a.orderid, Null) = "OK"
                    /\ IF code = "OK"
                       THEN result'[c].code \in {"SUCCESS", "DATABASE_ERROR"}
                       ELSE result'[c] = [code |-> code]
         ]_vars

\* one call was refused at the second check and another at the sixth
C17_Witness ==
    \E c, d \in Calls :
        /\ pc[c] = "done" /\ result[c].code = "SELF_TRANSFER"
        /\ pc[d] = "done" /\ result[d].code = "SENDER_BALANCE_NOT_FOUND"

\* call c, invoked with s, r, a, oid, can only return at once with the
\* given code, having changed no balance, transaction, mutation or lock
RefusedWith(c, s, r, a, oid, code) ==
    ~ENABLED ( /\ Begin(c, s, r, a, oid)
               /\ ~( /\ pc'[c] = "done"
                     /\ result'[c] = [code |-> code]
                     /\ NothingPersisted
                     /\ locks' = locks ) )

\* C18, as the specification states it: a call whose sender is its
\* receiver always fails with SELF_TRANSFER and changes nothing, whatever
\* else is true of the call and of the account.
C18_SelfTransferAlways ==
    \A c \in Calls : \A s \in AccountIds : \A a \in Amounts : \A oid \in OrderIds :
        pc[c] = "new" => RefusedWith(c, s, s, a, oid, "SELF_TRANSFER")

\* C18, amended: a call whose sender is its receiver and whose amount is
\* positive fails with SELF_TRANSFER, whether the account exists, is banned,
\* has a balance row or has the funds, and changes nothing; with an amount
\* of zero or less it fails with INVALID_AMOUNT, and changes nothing.
C18_SelfTransferRefused ==
    \A c \in Calls : \A s \in AccountIds : \A a \in Amounts : \A oid \in OrderIds :
        pc[c] = "new" =>
            RefusedWith(c, s, s, a, oid,
                        IF a > 0 THEN "SELF_TRANSFER" ELSE "INVALID_AMOUNT")

\* a call was refused as a self-transfer and nothing has been written
C18_Witness ==
    /\ \E c \in Calls : pc[c] = "done" /\ result[c].code = "SELF_TRANSFER"
    /\ balances = InitialBalances
    /\ transactions = <<>>

\* ---- the amount ---------------------------------------------------------

\* paymentRequestSchema.amount: z.number().positive().min(0.01)
\* .max(999999999.99), in thousandths; the request reaches handle_payment
\* only when its amount passes
paymentRequestSchema_amount(a) ==
    /\ a > 0
    /\ a >= 10
    /\ \/ a \div 1000 < 999999999
       \/ a \div 1000 = 999999999 /\ a % 1000 <= 990

\* the amount has more than two fractional digits
ExcessPrecision(a) == a % 10 # 0

\* C19: every amount that is zero, negative or has more than two
\* fractional digits is rejected, by the request schema or by the call
\* returning INVALID_AMOUNT, and is never applied to a balance.
C19_ImpreciseAmountRejected ==
    \A c \in Calls : \A s, r \in AccountIds : \A a \in Amounts : \A oid \in OrderIds :
        pc[c] = "new" /\ (a <= 0 \/ ExcessPrecision(a)) =>
            \/ ~paymentRequestSchema_amount(a)
            \/ RefusedWith(c, s, r, a, oid, "INVALID_AMOUNT")

\* ---- accounts that do not exist or are banned ---------------------------

\* the account does not exist or is banned
Unusable(u) == u \notin Users \/ u \in Banned

\* C20, as the specification states it: a call whose sender or receiver
\* does not exist or is banned fails with SENDER_NOT_FOUND when it is the
\* sender, otherwise with RECEIVER_NOT_FOUND, and writes nothing.
C20_UnusableAccountNotFound ==
    \A c \in Calls : \A s, r \in AccountIds : \A a \in Amounts : \A oid \in OrderIds :
        pc[c] = "new" /\ (Unusable(s) \/ Unusable(r)) =>
            RefusedWith(c, s, r, a, oid,
                        IF Unusable(s) THEN "SENDER_NOT_FOUND"
                        ELSE "RECEIVER_NOT_FOUND")

\* C20, amended: a call whose sender or receiver does not exist or is
\* banned never succeeds and writes nothing: it is refused at once, with
\* INVALID_AMOUNT when its amount is not positive, else with SELF_TRANSFER
\* when sender and receiver are the same, else with SENDER_NOT_FOUND when it
\* is the sender that is unusable, else with RECEIVER_NOT_FOUND; and no
\* transaction record names an account that does not exist or is banned.
C20_UnusableAccountRefused ==
    /\ \A c \in Calls : \A s, r \in AccountIds : \A a \in Amounts :
          \A oid \in OrderIds :
             pc[c] = "new" /\ (Unusable(s) \/ Unusable(r)) =>
                RefusedWith(c, s, r, a, oid,
                            IF a <= 0 THEN "INVALID_AMOUNT"
                            ELSE IF s = r THEN "SELF_TRANSFER"
                            ELSE IF Unusable(s) THEN "SENDER_NOT_FOUND"
                            ELSE "RECEIVER_NOT_FOUND")
    /\ \A i \in 1..Len(transactions) :
          ~Unusable(transactions[i].sender_id) /\ ~Unusable(transactions[i].receiver_id)

\* one call was refused for its sender and another for its receiver, and
\* there is no transaction record
C20_Witness ==
    /\ \E c, d \in Calls :
          /\ pc[c] = "done" /\ result[c].code = "SENDER_NOT_FOUND"
          /\ pc[d] = "done" /\ result[d].code = "RECEIVER_NOT_FOUND"
    /\ transactions = <<>>
    /\ mutations = <<>>

\* ---- balance rows that do not exist yet ---------------------------------

\* C21: when the receiver has no balance row, a successful call of amount X
\* creates the receiver's row with amount exactly X and records a credit
\* mutation of the receiver whose prior balance is 0.
C21_ReceiverRowCreated ==
    [][ \A c \in Calls :
           Succeeds(c) /\ args[c].receiver \notin DOMAIN balances =>
              /\ args[c].receiver \in DOMAIN balances'
              /\ balances'[args[c].receiver] = args[c].amount
              /\ \E i \in 1..Len(mutations') :
                    /\ mutations'[i].transaction_id = args[c].cid
                    /\ mutations'[i].user_id = args[c].receiver
                    /\ mutations'[i].type = "credit"
                    /\ mutations'[i].prev_balance = 0
      ]_vars

\* call c reads its sender's balance row in this step (line 203)
ReadsSender(c) == pc[c] = "lock_sender" /\ pc'[c] # "lock_sender"

\* call c, whose sender had no balance row when it read it, fails in this
\* step with SENDER_BALANCE_NOT_FOUND and changes nothing
SenderBalanceMissing(c) ==
    /\ (ReadsSender(c) /\ args[c].sender \notin DOMAIN balances
           => v_sender_balance'[c] = Null /\ locks'[c] = locks[c])
    /\ (Decided(c) /\ v_sender_balance[c] = Null
           => /\ result'[c] = [code |-> "SENDER_BALANCE_NOT_FOUND"]
              /\ pc'[c] = "done"
              /\ locks'[c] = {}
              /\ NothingPersisted)

\* C22, as the specification states it: a call whose sender has no balance
\* row fails with SENDER_BALANCE_NOT_FOUND and with no other code, whatever
\* its amount, creates no row for the sender and changes nothing.
C22_NoSenderRowAlwaysMissing ==
    /\ [](\A c \in Calls : \A s, r \in AccountIds : \A a \in Amounts :
             \A oid \in OrderIds :
                pc[c] = "new" /\ s \notin DOMAIN balances =>
                   ~ENABLED (Begin(c, s, r, a, oid) /\ result'[c] # NoResult))
    /\ [][\A c \in Calls : SenderBalanceMissing(c)]_vars

\* C22, amended: a call that passes the validation, referential and
\* order-id checks and whose sender has no balance row when the row is read
\* fails with SENDER_BALANCE_NOT_FOUND, whatever its (positive) amount,
\* gives up its locks, creates no row for the sender and changes nothing.
C22_NoSenderRowRefused ==
    [][\A c \in Calls : SenderBalanceMissing(c)]_vars

\* a call was refused for its sender's missing balance row, the sender
\* still has no row, and nothing has been written
C22_Witness ==
    /\ \E c \in Calls :
          pc[c] = "done" /\ result[c].code = "SENDER_BALANCE_NOT_FOUND"
    /\ DOMAIN balances = DOMAIN InitialBalances
    /\ persisted = <<InitialBalances, <<>>, <<>>>>

\* ---- the endpoints around handle_payment -------------------------------

\* the authenticated users that call the balance endpoints: one with a
\* balance row at the start and one without
ApiUsers == {1, 3}

\* the authenticated user that asks for its history
HistoryUsers == {1}

\* amounts a caller may post to /api/balance, in thousandths
BalanceAmounts == {-10, 15, 50}

\* limit and offset of a history request that pass paginationQuerySchema
Limits == {1, 2}
Offsets == {0, 1}

\* the largest limit paginationQuerySchema accepts
MaxLimit == 100

\* limits a caller may put in the query string
RawLimits == {1, 2, 101}

\* paginationQuerySchema without its second refinement of limit
paginationQuerySchema_nomax(limit, offset) ==
    /\ limit > 0
    /\ offset >= 0

\* paginationQuerySchema: limit > 0, limit <= 100, offset >= 0
paginationQuerySchema(limit, offset) ==
    /\ limit > 0
    /\ limit <= MaxLimit
    /\ offset >= 0

\* createErrorResponse('Invalid query parameters', 'VALIDATION_ERROR', 400)
InvalidQuery(op) == [op |-> op, status |-> 400, code |-> "VALIDATION_ERROR"]

\* the optional type filter of GET /api/mut
TypeFilters == {Null, Some("debit"), Some("credit")}

\* balanceUpdateSchema.amount: min(0), max(999999999.99), finite and
\* (val * 100) % 1 === 0
balanceUpdateSchema_amount(a) ==
    /\ a >= 0
    /\ \/ a \div 1000 < 999999999
       \/ a \div 1000 = 999999999 /\ a % 1000 <= 990
    /\ (a * 100) % 1000 = 0

\* a call holds user u's balance row FOR UPDATE, or has inserted it and
\* not yet committed: a write of the row by another session waits
RowBusy(u) ==
    \E q \in Calls : u \in locks[q] \/ u \in DOMAIN pending[q].bal

\* what the steps of the endpoints other than /api/pay leave as it is: the
\* calls of handle_payment, and the metrics, whose recording is a step of
\* its own that no other step reads
payments == <<pc, args, v_sender_balance, v_receiver_balance, locks, pending,
              result, timedout, metrics, recorded>>

\* POST /api/balance by the authenticated user u: a body that fails the
\* schema is answered 400; otherwise the user's row is looked up and
\* inserted with the amount, or updated to it, and the amount is returned.
SetBalance(u, a) ==
    /\ request = NoRequest
    /\ IF ~balanceUpdateSchema_amount(a)
       THEN /\ response' = [op |-> "set_balance", status |-> 400]
            /\ UNCHANGED balances
       ELSE /\ ~RowBusy(u)
            /\ balances' = (u :> Round2(a)) @@ balances
            /\ response' = [op |-> "set_balance", status |-> 200,
                            balance |-> Round2(a)]
    /\ UNCHANGED <<transactions, mutations, payments, request>>

\* a read that also sees the row a call has written and not yet committed
get_user_balance_dirty(u) ==
    LET w == {q \in Calls : u \in DOMAIN pending[q].bal}
        v_balance == IF w # {} THEN Some(pending[CHOOSE q \in w : TRUE].bal[u])
                     ELSE IF u \in DOMAIN balances THEN Some(balances[u])
                     ELSE Null
    IN Coalesce(v_balance, 0)

\* get_user_balance: SELECT amount INTO v_balance ...; COALESCE(v_balance, 0)
get_user_balance(u) ==
    LET v_balance == IF u \in DOMAIN balances THEN Some(balances[u]) ELSE Null
    IN Coalesce(v_balance, 0)

\* GET /api/balance by the authenticated user u
GetBalance(u) ==
    /\ request = NoRequest
    /\ LET balance == get_user_balance(u)
       IN response' = [op |-> "balance", status |-> 200, user |-> u,
                       balance |-> IF balance = 0 THEN 0 ELSE balance]
    /\ UNCHANGED <<persisted, payments, request>>

\* created_at of a row: now() of the payment that wrote it, which is the
\* later the later the payment was invoked
CreatedAt(row) == IF "id" \in DOMAIN row THEN row.id ELSE row.transaction_id

\* .order('created_at', { ascending: false })
RECURSIVE OrderNewestFirst(_)
OrderNewestFirst(rows) ==
    IF rows = {} THEN <<>>
    ELSE LET newest == CHOOSE x \in rows : \A y \in rows : CreatedAt(y) <= CreatedAt(x)
         IN <<newest>> \o OrderNewestFirst(rows \ {newest})

\* .range(offset, offset + limit - 1)
Range(seq, offset, limit) ==
    SubSeq(seq, offset + 1, IF offset + limit <= Len(seq) THEN offset + limit
                            ELSE Len(seq))

Rows(seq) == {seq[i] : i \in 1..Len(seq)}

\* the query without its .or(...) filter
TransactionsOf_all(u) == Rows(transactions)

\* .or(`sender_id.eq.${userId},receiver_id.eq.${userId}`)
TransactionsOf(u) == {t \in Rows(transactions) : t.sender_id = u \/ t.receiver_id = u}

\* GET /api/trx, first query: the count of the user's transactions
ListTransactionsCount(u, limit, offset) ==
    /\ request = NoRequest
    /\ IF ~paginationQuerySchema(limit, offset)
       THEN /\ response' = InvalidQuery("trx")
            /\ UNCHANGED request
       ELSE /\ request' = [op |-> "trx", user |-> u, limit |-> limit,
                           offset |-> offset,
                           totalCount |-> Cardinality(TransactionsOf(u))]
            /\ response' = NoResponse
    /\ UNCHANGED <<persisted, payments>>

\* GET /api/trx, second query and the response
ListTransactionsFetch ==
    /\ request.op = "trx"
    /\ LET u == request.user
           page == Range(OrderNewestFirst(TransactionsOf(u)),
                         request.offset, request.limit)
           enriched == [i \in 1..Len(page) |->
                          [id |-> page[i].id, sender_id |-> page[i].sender_id,
                           receiver_id |-> page[i].receiver_id,
                           amount |-> page[i].amount,
                           direction |-> IF page[i].sender_id = u THEN "sent"
                                         ELSE "received"]]
       IN response' = [op |-> "trx", status |-> 200, user |-> u,
                       limit |-> request.limit, offset |-> request.offset,
                       items |-> enriched, total |-> request.totalCount,
                       hasMore |-> request.offset + request.limit < request.totalCount]
    /\ request' = NoRequest
    /\ UNCHANGED <<persisted, payments>>

\* .eq('user_id', userId) and, when type is given, .eq('type', type)
MutationsMatching(u, type) ==
    {m \in Rows(mutations) : m.user_id = u /\ (type = Null \/ m.type = Val(type))}

\* GET /api/mut, first query: the count of the user's mutations of the type
ListMutationsCount(u, type, limit, offset) ==
    /\ request = NoRequest
    /\ IF ~paginationQuerySchema(limit, offset)
       THEN /\ response' = InvalidQuery("mut")
            /\ UNCHANGED request
       ELSE /\ request' = [op |-> "mut", user |-> u, type |-> type,
                           limit |-> limit, offset |-> offset,
                           totalCount |-> Cardinality(MutationsMatching(u, type))]
            /\ response' = NoResponse
    /\ UNCHANGED <<persisted, payments>>

RECURSIVE SumChanges(_, _)
\* the sum of |balance - prev_balance| over the rows of seq of a type
SumChanges(seq, type) ==
    IF seq = <<>> THEN 0
    ELSE LET changeAmount == Head(seq).balance - Head(seq).prev_balance
             abs == IF changeAmount < 0 THEN -changeAmount ELSE changeAmount
         IN (IF Head(seq).type = type THEN abs ELSE 0) + SumChanges(Tail(seq), type)

\* the summary GET /api/mut computes over the rows it is handed
Summary(seq) ==
    LET totalDebits == SumChanges(seq, "debit")
        totalCredits == SumChanges(seq, "credit")
    IN [total_debits |-> totalDebits, total_credits |-> totalCredits,
        net_change |-> totalCredits - totalDebits]

\* GET /api/mut, second query and the response: the rows are fetched by
\* user_id alone, and the summary runs over the fetched rows
ListMutationsFetch ==
    /\ request.op = "mut"
    /\ LET u == request.user
           page == Range(OrderNewestFirst(MutationsMatching(u, Null)),
                         request.offset, request.limit)
       IN response' = [op |-> "mut", status |-> 200, user |-> u,
                       type |-> request.type,
                       limit |-> request.limit, offset |-> request.offset,
                       items |-> page, total |-> request.totalCount,
                       hasMore |-> request.offset + request.limit < request.totalCount,
                       summary |-> Summary(page)]
    /\ request' = NoRequest
    /\ UNCHANGED <<persisted, payments>>

\* DELETE /api/trx carried out: the oldest transaction is removed
MethodNotAllowed_delete ==
    /\ request = NoRequest
    /\ transactions # <<>>
    /\ transactions' = Tail(transactions)
    /\ response' = [op |-> "placeholder", status |-> 200]
    /\ UNCHANGED <<balances, mutations, payments, request>>

\* POST, PUT, DELETE /api/trx and POST /api/mut: 405, nothing else
MethodNotAllowed ==
    /\ request = NoRequest
    /\ response' = [op |-> "placeholder", status |-> 405]
    /\ UNCHANGED <<persisted, payments, request>>

\* a payment request is taken up while no other payment is in progress
BeginAlone(c, s, r, a, oid) ==
    /\ \A q \in Calls : pc[q] \in {"new", "done"}
    /\ Begin(c, s, r, a, oid)

\* storage faults that strike a payment made alongside the other
\* endpoints: none, or one at the fourth write statement
ApiFaults == {0, 4}

\* The payment endpoint, one payment at a time between existing users and
\* with generated order ids.
NextPayAlone ==
    \/ \E c \in Calls, s \in ActiveUsers, r \in ActiveUsers, a \in Amounts :
          BeginAlone(c, s, r, a, Null)
    \/ \E c \in Calls : LockSender(c)
    \/ \E c \in Calls : LockReceiver(c)
    \/ \E c \in Calls, fault \in ApiFaults : Write(c, fault)
    \/ \E c \in Calls : Commit(c)

\* The payment endpoint with the read and placeholder endpoints running
\* alongside it.
NextApi ==
    \/ NextPayAlone
    \/ \E u \in ApiUsers : GetBalance(u)
    \/ \E u \in HistoryUsers, limit \in Limits, offset \in Offsets :
          ListTransactionsCount(u, limit, offset)
    \/ ListTransactionsFetch
    \/ \E u \in HistoryUsers, type \in TypeFilters, limit \in Limits,
          offset \in Offsets :
          ListMutationsCount(u, type, limit, offset)
    \/ ListMutationsFetch
    \/ MethodNotAllowed

SpecApi == Init /\ [][NextApi]_vars

\* The payment endpoint with POST and GET /api/balance alongside it.
NextBalance ==
    \/ NextPayAlone
    \/ \E u \in ApiUsers, a \in BalanceAmounts : SetBalance(u, a)
    \/ \E u \in ApiUsers : GetBalance(u)

SpecBalance == Init /\ [][NextBalance]_vars

\* C23: the amount of a balance row changes, and a balance row appears,
\* only in a step in which a call of handle_payment succeeds, and that step
\* adds one transaction and two mutations.
C23_BalancesChangeByPaymentOnly ==
    [][ balances' # balances =>
           \E c \in Calls :
              /\ Succeeds(c)
              /\ Len(transactions') = Len(transactions) + 1
              /\ Len(mutations') = Len(mutations) + 2
      ]_vars

\* seq is an initial part of seq2
IsPrefix(seq, seq2) ==
    Len(seq) <= Len(seq2) /\ \A i \in 1..Len(seq) : seq2[i] = seq[i]

\* C24: transactions and mutations are append-only: every step of a
\* payment, of the history and balance reads and of the placeholder
\* endpoints leaves every existing transaction and mutation as it is and
\* at most appends records, and no step of POST /api/balance can change
\* either set.
C24_AppendOnly ==
    /\ [][ /\ IsPrefix(transactions, transactions')
           /\ IsPrefix(mutations, mutations')
         ]_vars
    /\ [](\A u \in ApiUsers : \A a \in BalanceAmounts :
             ~ENABLED ( /\ SetBalance(u, a)
                        /\ (transactions' # transactions \/ mutations' # mutations) ))

\* two payments are recorded and a placeholder endpoint has answered
C24_Witness ==
    /\ Len(transactions) = 2
    /\ Len(mutations) = 4
    /\ response.op = "placeholder"

\* ---- the request timeout -------------------------------------------------

\* createApiHandler races the handler against a 30 s timer: when the timer
\* wins while call c is still in handle_payment, the request is answered
\* 'Request timeout'; the handler's promise, and the call, go on.
Timeout(c) ==
    /\ pc[c] \in {"lock_sender", "lock_receiver", "write", "commit"}
    /\ c \notin timedout
    /\ timedout' = timedout \cup {c}
    /\ UNCHANGED <<persisted, pc, args, v_sender_balance, v_receiver_balance,
                   locks, pending, result, request, response, metrics, recorded>>

\* Concurrent payments whose requests may time out.
NextTimeout ==
    \/ Next
    \/ \E c \in Calls : Timeout(c)

SpecTimeout == Init /\ [][NextTimeout]_vars

\* C25: a payment request that was answered as timed out leaves nothing
\* persisted: at no later point does a transaction or a mutation of that
\* request exist, and no step of the request changes a balance.
C25_TimedOutLeavesNothing ==
    /\ [](\A c \in timedout :
             /\ \A i \in 1..Len(transactions) : transactions[i].id # c
             /\ \A i \in 1..Len(mutations) : mutations[i].transaction_id # c)
    /\ [][\A c \in timedout : Returns(c) => balances' = balances]_vars

\* ---- every call returns --------------------------------------------------

\* Every call has been invoked at once and has passed lines 174-199: each
\* pays 0.01 from one existing user to another, under a generated order id.
InitLive ==
    /\ balances = InitialBalances
    /\ transactions = <<>>
    /\ mutations = <<>>
    /\ pc = [c \in Calls |-> "lock_sender"]
    /\ \E ss \in [Calls -> ActiveUsers] :
       \E rs \in [Calls -> ActiveUsers] :
          /\ \A c \in Calls : ss[c] # rs[c]
          /\ args = [c \in Calls |->
                       [cid |-> c, sender |-> ss[c], receiver |-> rs[c],
                        amount |-> 10, orderid |-> FinalOrderId(Null, c)]]
    /\ v_sender_balance = [c \in Calls |-> Null]
    /\ v_receiver_balance = [c \in Calls |-> Null]
    /\ locks = [c \in Calls |-> {}]
    /\ pending = [c \in Calls |-> NoWrites]
    /\ result = [c \in Calls |-> NoResult]
    /\ timedout = {}
    /\ request = NoRequest
    /\ response = NoResponse
    /\ metrics = <<>>
    /\ recorded = <<>>

NextLive ==
    \/ \E c \in Calls : LockSender(c)
    \/ \E c \in Calls : LockReceiver(c)
    \/ \E c \in Calls, fault \in 0..5 : Write(c, fault)
    \/ \E c \in Calls : Commit(c)
    \/ \E c \in Calls : DeadlockAbort(c)

\* The server runs every backend that can take a step, and its deadlock
\* detector runs whenever a wait has lasted deadlock_timeout.
Fairness ==
    \A c \in Calls :
        /\ WF_vars(LockSender(c))
        /\ WF_vars(LockReceiver(c))
        /\ WF_vars(\E fault \in 0..5 : Write(c, fault))
        /\ WF_vars(Commit(c))
        /\ WF_vars(DeadlockAbort(c))

SpecLive == InitLive /\ [][NextLive]_vars /\ Fairness

\* the codes a call can return
ResultCodes ==
    {"SUCCESS", "INVALID_AMOUNT", "SELF_TRANSFER", "SENDER_NOT_FOUND",
     "RECEIVER_NOT_FOUND", "DUPLICATE_ORDERID", "SENDER_BALANCE_NOT_FOUND",
     "INSUFFICIENT_FUNDS", "DATABASE_ERROR"}

\* C26: under fair scheduling every call that has been invoked eventually
\* returns, with a success record or a failure code; a call that waits for
\* a balance row is not left waiting for ever.
C26_EveryCallReturns ==
    \A c \in Calls :
        (pc[c] # "done") ~> (pc[c] = "done" /\ result[c].code \in ResultCodes)

\* a call waits at line 204 for a row that another call holds
C26_Witness ==
    \E c \in Calls :
        pc[c] = "lock_receiver" /\ LockedByOther(c, args[c].receiver)

\* ---- the read endpoints ---------------------------------------------------

\* C27: GET /api/balance answers 200 with the amount of the user's
\* committed balance row, and with exactly zero when the user has no
\* committed row; what a payment has written and not yet committed is
\* never returned.
C27_BalanceReadIsCommitted ==
    [][ \A u \in ApiUsers :
           GetBalance(u) =>
              /\ response'.status = 200
              /\ response'.balance = IF u \in DOMAIN balances THEN balances[u]
                                     ELSE 0
      ]_vars

\* user 3, whose first balance row a payment has inserted and not yet
\* committed, has been answered zero
C27_Witness ==
    /\ response.op = "balance"
    /\ response.user = 3
    /\ response.balance = 0
    /\ 3 \notin DOMAIN balances
    /\ \E c \in Calls : pc[c] = "commit" /\ 3 \in DOMAIN pending[c].bal

\* C28: GET /api/trx counts all transactions in which the user is sender or
\* receiver and reports that count as the total; every transaction it
\* returns is a stored transaction of the user, the returned ones are in
\* order of creation with the newest first, and each carries direction
\* 'sent' when the user is its sender and 'received' otherwise.
C28_TransactionsListed ==
    [][ /\ \A u \in HistoryUsers, limit \in Limits, offset \in Offsets :
              ListTransactionsCount(u, limit, offset) =>
                 request'.totalCount =
                    Cardinality({i \in 1..Len(transactions) :
                                    \/ transactions[i].sender_id = u
                                    \/ transactions[i].receiver_id = u})
        /\ ListTransactionsFetch =>
              LET u == request.user
                  items == response'.items
              IN /\ response'.total = request.totalCount
                 /\ \A i \in 1..Len(items) :
                       /\ items[i].sender_id = u \/ items[i].receiver_id = u
                       /\ \E k \in 1..Len(transactions) :
                             /\ transactions[k].id = items[i].id
                             /\ transactions[k].sender_id = items[i].sender_id
                             /\ transactions[k].receiver_id = items[i].receiver_id
                             /\ transactions[k].amount = items[i].amount
                       /\ items[i].direction =
                             IF items[i].sender_id = u THEN "sent" ELSE "received"
                 /\ \A i \in 1..Len(items) : \A k \in 1..Len(items) :
                       i < k => CreatedAt(items[i]) > CreatedAt(items[k])
      ]_vars

\* a page of two transactions, one the user sent and one it received
C28_Witness ==
    /\ response.op = "trx"
    /\ Len(response.items) = 2
    /\ response.total = 2
    /\ response.items[1].direction = "sent"
    /\ response.items[2].direction = "received"

\* C29: the summary GET /api/mut returns is the summary of all mutations of
\* the user that match the type filter, whatever the limit and the offset.
C29_SummaryOverAllMatching ==
    [][ ListMutationsFetch =>
           response'.summary =
              Summary(OrderNewestFirst(MutationsMatching(request.user, request.type)))
      ]_vars

\* C30: when GET /api/mut is given a type, every mutation it returns is a
\* mutation of the user of that type, and the total and the has-more flag
\* count the user's mutations of that type as they are when the items are
\* fetched.
C30_TypeFilterApplied ==
    [][ (ListMutationsFetch /\ request.type # Null) =>
           LET matching == MutationsMatching(request.user, request.type)
               items == response'.items
           IN /\ \A i \in 1..Len(items) : items[i] \in matching
              /\ response'.total = Cardinality(matching)
              /\ response'.hasMore =
                    (request.offset + request.limit < Cardinality(matching))
      ]_vars

\* ---- the page size ---------------------------------------------------------

\* The history endpoints with any limit a caller may send, alongside
\* payments made one at a time.
NextPage ==
    \/ NextPayAlone
    \/ \E u \in HistoryUsers, limit \in RawLimits, offset \in Offsets :
          ListTransactionsCount(u, limit, offset)
    \/ ListTransactionsFetch
    \/ \E u \in HistoryUsers, limit \in RawLimits, offset \in Offsets :
          ListMutationsCount(u, Null, limit, offset)
    \/ ListMutationsFetch

SpecPage == Init /\ [][NextPage]_vars

\* a step of a history request that carries this limit
ListsWithLimit(limit) ==
    \E u \in HistoryUsers, offset \in Offsets :
        \/ ListTransactionsCount(u, limit, offset)
        \/ ListMutationsCount(u, Null, limit, offset)

\* C31 as stated: a history request with a limit above the maximum is
\* served, with the maximum as its page size, and no response holds more
\* items than the maximum.
C31_LimitClamped ==
    [][ \A limit \in RawLimits :
           (ListsWithLimit(limit) /\ limit > MaxLimit) =>
              /\ request' # NoRequest
              /\ request'.limit = MaxLimit
      ]_vars

\* C31, amended: a history request with a limit above the maximum is
\* answered 400 VALIDATION_ERROR without any query being run, and no
\* response holds more items than its limit, which is at most the maximum.
C31_LimitAboveMaxRejected ==
    /\ [][ \A limit \in RawLimits :
              (ListsWithLimit(limit) /\ limit > MaxLimit) =>
                 /\ response' \in {InvalidQuery("trx"), InvalidQuery("mut")}
                 /\ request' = NoRequest
                 /\ UNCHANGED persisted
         ]_vars
    /\ [](response.op \in {"trx", "mut"} /\ response.status = 200 =>
             /\ Len(response.items) <= response.limit
             /\ response.limit <= MaxLimit)

\* a history request has been refused for its limit after two payments
C31_Witness ==
    /\ response.op \in {"trx", "mut"}
    /\ response.status = 400
    /\ Len(mutations) = 4

\* ---- authentication --------------------------------------------------------

\* a row of users with verified = false and banned = false; every other row
\* of users is verified; no payment of the model names this user
UnverifiedUsers == {6}

\* all rows of users
UserRows == Users \cup UnverifiedUsers

\* the rows of api_keys: user 1 has a live key and a revoked one
api_keys ==
    { [key |-> "key1", user_id |-> 1, is_active |-> TRUE],
      [key |-> "old1", user_id |-> 1, is_active |-> FALSE],
      [key |-> "key4", user_id |-> 4, is_active |-> TRUE],
      [key |-> "key6", user_id |-> 6, is_active |-> TRUE] }

\* what a caller may send as x-api-key: nothing, a stored key or another string
PresentedKeys == {Null, Some("nokey")} \cup {Some(ak.key) : ak \in api_keys}

\* what a caller may send as x-user-id and as x-api-key-validated
PresentedUserIds == {Null, Some(1), Some(3), Some(4), Some(6)}
PresentedValidated == {Null, Some("true")}

\* a lookup that does not examine is_active, banned and verified
validate_api_key_anyrow(api_key_param) ==
    LET rows == {ak \in api_keys : ak.key = api_key_param}
    IN IF rows = {} THEN Null ELSE Some((CHOOSE ak \in rows : TRUE).user_id)

\* validate_api_key: the user of the key when the key is active and its
\* user is neither banned nor unverified; no row otherwise
validate_api_key(api_key_param) ==
    LET rows == {ak \in api_keys :
                    /\ ak.key = api_key_param
                    /\ ak.is_active
                    /\ ak.user_id \in UserRows
                    /\ ak.user_id \notin Banned
                    /\ ak.user_id \notin UnverifiedUsers}
    IN IF rows = {} THEN Null ELSE Some((CHOOSE ak \in rows : TRUE).user_id)

\* an error response: status and code
ErrorResponse(status, code) == [op |-> "error", status |-> status, code |-> code]

\* apiKeyMiddleware: Null lets the request through to its route, with the
\* headers the caller sent (the request built at lines 104-111 is dropped)
apiKeyMiddleware(pathname, apiKey) ==
    IF pathname = "/api/webhooks" THEN Null
    ELSE IF apiKey = Null THEN Some(ErrorResponse(401, "MISSING_API_KEY"))
    ELSE IF validate_api_key(Val(apiKey)) = Null
         THEN Some(ErrorResponse(401, "INVALID_API_KEY"))
    ELSE Null

\* createApiHandler, lines 352-383: the user is taken from x-user-id when
\* x-api-key-validated is 'true', and its row of users is examined
Authenticate(xUserId, xValidated) ==
    IF xValidated # Some("true") \/ xUserId = Null
    THEN Some(ErrorResponse(401, "UNAUTHORIZED"))
    ELSE IF Val(xUserId) \notin UserRows THEN Some(ErrorResponse(404, "NOT_FOUND"))
    ELSE IF Val(xUserId) \in Banned THEN Some(ErrorResponse(403, "FORBIDDEN"))
    ELSE IF Val(xUserId) \in UnverifiedUsers THEN Some(ErrorResponse(403, "FORBIDDEN"))
    ELSE Null

\* the middleware and createApiHandler in turn: the response that ends the
\* request before its handler, or Null
Refusal(pathname, apiKey, xUserId, xValidated) ==
    IF apiKeyMiddleware(pathname, apiKey) # Null
    THEN apiKeyMiddleware(pathname, apiKey)
    ELSE Authenticate(xUserId, xValidated)

\* the request is answered without its handler being run
Refuse(resp) ==
    /\ request = NoRequest
    /\ response' = resp
    /\ UNCHANGED <<persisted, payments, request>>

\* GET /api/balance as a caller sends it
BalanceGetRequest(apiKey, xUserId, xValidated) ==
    LET refusal == Refusal("/api/balance", apiKey, xUserId, xValidated)
    IN IF refusal # Null THEN Refuse(Val(refusal))
       ELSE GetBalance(Val(xUserId))

\* POST /api/balance as a caller sends it
BalancePostRequest(apiKey, xUserId, xValidated, a) ==
    LET refusal == Refusal("/api/balance", apiKey, xUserId, xValidated)
    IN IF refusal # Null THEN Refuse(Val(refusal))
       ELSE SetBalance(Val(xUserId), a)

\* a request to a path under /api/webhooks: no route of the repository
\* serves it
WebhookRequest(apiKey) ==
    LET refusal == apiKeyMiddleware("/api/webhooks", apiKey)
    IN IF refusal # Null THEN Refuse(Val(refusal))
       ELSE Refuse(ErrorResponse(404, "NOT_FOUND"))

\* POST /api/pay up to its call of handle_payment: the middleware,
\* createApiHandler, the body schema, the self-transfer check and the
\* lookup of the recipient
PayAdmit(apiKey, xUserId, xValidated, recipientId, amount, orderid) ==
    LET refusal == Refusal("/api/pay", apiKey, xUserId, xValidated)
    IN IF refusal # Null THEN Refuse(Val(refusal))
       ELSE IF ~paymentRequestSchema_amount(amount)
            THEN Refuse(ErrorResponse(400, "VALIDATION_ERROR"))
       ELSE IF Val(xUserId) = recipientId
            THEN Refuse(ErrorResponse(400, "VALIDATION_ERROR"))
       ELSE IF recipientId \notin UserRows
            THEN Refuse(ErrorResponse(404, "NOT_FOUND"))
       ELSE IF recipientId \in Banned
            THEN Refuse(ErrorResponse(403, "FORBIDDEN"))
       ELSE /\ request = NoRequest
            /\ \E c \in Calls :
                  /\ pc[c] = "new"
                  /\ \A q \in 1..(c - 1) : pc[q] # "new"
                  /\ request' = [op |-> "pay", call |-> c,
                                 senderId |-> Val(xUserId),
                                 recipientId |-> recipientId,
                                 amount |-> amount, orderid |-> orderid]
            /\ response' = NoResponse
            /\ UNCHANGED <<persisted, payments>>

\* supabase.rpc('handle_payment', ...) of the admitted request
PayInvoke ==
    /\ request.op = "pay"
    /\ Begin(request.call, request.senderId, request.recipientId,
             request.amount, request.orderid)

\* every failure answered as a payment error
PayResponse_allerrors(res) == ErrorResponse(500, "PAYMENT_ERROR")

\* the response POST /api/pay makes of the result of handle_payment
PayResponse(res) ==
    IF res.code = "SUCCESS"
    THEN [op |-> "pay", status |-> 200,
          transactionId |-> res.transaction_id, orderid |-> res.orderid,
          amount |-> res.amount, senderNewBalance |-> res.sender_new_balance,
          receiverNewBalance |-> res.receiver_new_balance]
    ELSE IF res.code \in {"INVALID_AMOUNT", "SELF_TRANSFER", "DUPLICATE_ORDERID"}
         THEN ErrorResponse(400, "VALIDATION_ERROR")
    ELSE IF res.code \in {"SENDER_NOT_FOUND", "RECEIVER_NOT_FOUND",
                          "SENDER_BALANCE_NOT_FOUND"}
         THEN ErrorResponse(404, "NOT_FOUND")
    ELSE IF res.code = "INSUFFICIENT_FUNDS"
         THEN ErrorResponse(402, "INSUFFICIENT_FUNDS")
    ELSE ErrorResponse(500, "PAYMENT_ERROR")

\* POST /api/pay after handle_payment has returned
PayRespond ==
    /\ request.op = "pay"
    /\ pc[request.call] = "done"
    /\ response' = PayResponse(result[request.call])
    /\ request' = NoRequest
    /\ UNCHANGED <<persisted, payments>>

\* The balance and payment routes as callers reach them, one request at a
\* time; the payments are of 0.01 to user 1 or user 3.
NextAuth ==
    \/ \E apiKey \in PresentedKeys, xUserId \in PresentedUserIds,
          xValidated \in PresentedValidated :
          BalanceGetRequest(apiKey, xUserId, xValidated)
    \/ \E apiKey \in PresentedKeys, xUserId \in PresentedUserIds,
          xValidated \in PresentedValidated, a \in BalanceAmounts :
          BalancePostRequest(apiKey, xUserId, xValidated, a)
    \/ \E apiKey \in PresentedKeys : WebhookRequest(apiKey)
    \/ \E apiKey \in PresentedKeys, xUserId \in PresentedUserIds,
          xValidated \in PresentedValidated, recipientId \in ApiUsers :
          PayAdmit(apiKey, xUserId, xValidated, recipientId, 10, Null)
    \/ PayInvoke
    \/ \E c \in Calls : LockSender(c)
    \/ \E c \in Calls : LockReceiver(c)
    \/ \E c \in Calls, fault \in ApiFaults : Write(c, fault)
    \/ \E c \in Calls : Commit(c)
    \/ PayRespond

SpecAuth == Init /\ [][NextAuth]_vars

\* a caller that presents a live key, x-api-key-validated and its x-user-id
PayRequest(xUserId, recipientId, amount, orderid) ==
    PayAdmit(Some("key1"), Some(xUserId), Some("true"), recipientId, amount,
             orderid)

\* the users named in x-user-id by the callers of POST /api/pay: the users
\* that are not banned, and an id that is nobody's
Payers == AccountIds \ Banned

\* POST /api/pay by callers that present a live key, one request at a time.
NextPay ==
    \/ \E xUserId \in Payers, recipientId \in AccountIds, amount \in Amounts,
          orderid \in OrderIds :
          PayRequest(xUserId, recipientId, amount, orderid)
    \/ PayInvoke
    \/ \E c \in Calls : LockSender(c)
    \/ \E c \in Calls : LockReceiver(c)
    \/ \E c \in Calls, fault \in 0..5 : Write(c, fault)
    \/ \E c \in Calls : Commit(c)
    \/ PayRespond

SpecPay == Init /\ [][NextPay]_vars

\* the presented key is stored, active, and of a user that is neither
\* banned nor unverified
KeyUsable(apiKey) ==
    /\ apiKey # Null
    /\ \E ak \in api_keys :
          /\ ak.key = Val(apiKey)
          /\ ak.is_active
          /\ ak.user_id \notin Banned
          /\ ak.user_id \notin UnverifiedUsers

\* the user a stored key belongs to
KeyOwner(apiKey) == (CHOOSE ak \in api_keys : ak.key = Val(apiKey)).user_id

\* a request to /api/balance or /api/pay with these three headers
RequestWith(apiKey, xUserId, xValidated) ==
    \/ BalanceGetRequest(apiKey, xUserId, xValidated)
    \/ \E a \in BalanceAmounts : BalancePostRequest(apiKey, xUserId, xValidated, a)
    \/ \E recipientId \in ApiUsers :
          PayAdmit(apiKey, xUserId, xValidated, recipientId, 10, Null)

\* the middleware's answer, with nothing stored and no call begun
RefusedByMiddleware ==
    /\ response' \in {ErrorResponse(401, "MISSING_API_KEY"),
                      ErrorResponse(401, "INVALID_API_KEY")}
    /\ UNCHANGED <<persisted, payments, request>>

\* C32: a request to /api/balance or /api/pay whose x-api-key is missing,
\* unknown, inactive or of a banned or unverified user is answered 401 by
\* the middleware, whatever its other headers and its body: no handler
\* runs and nothing persisted changes.
C32_BadKeyRefused ==
    \A apiKey \in PresentedKeys :
        ~KeyUsable(apiKey) =>
           \A xUserId \in PresentedUserIds, xValidated \in PresentedValidated :
              ~ENABLED ( /\ RequestWith(apiKey, xUserId, xValidated)
                         /\ ~RefusedByMiddleware )

\* a request has been refused for its key after a payment was recorded
C32_Witness ==
    /\ response = ErrorResponse(401, "INVALID_API_KEY")
    /\ Len(transactions) >= 1

\* the step reads, writes or pays from the balance of a user other than owner
ActsForOtherThan(owner) ==
    \/ response'.op = "balance" /\ response'.user # owner
    \/ \E u \in UserRows \ {owner} :
          /\ u \in DOMAIN balances'
          /\ u \notin DOMAIN balances \/ balances'[u] # balances[u]
    \/ request'.op = "pay" /\ request'.senderId # owner

\* C33: a request that presents a usable key acts on the account of the
\* user the key belongs to, whatever x-user-id and x-api-key-validated the
\* caller sends with it.
C33_ActsAsKeyOwner ==
    \A apiKey \in PresentedKeys :
        KeyUsable(apiKey) =>
           \A xUserId \in PresentedUserIds, xValidated \in PresentedValidated :
              ~ENABLED ( /\ RequestWith(apiKey, xUserId, xValidated)
                         /\ ActsForOtherThan(KeyOwner(apiKey)) )

\* ---- the responses of POST /api/pay ---------------------------------------

\* the statuses documented for what is wrong with a request before
\* handle_payment is called; a banned recipient is given the status banned
AdmitStatuses(xUserId, recipientId, amount, banned) ==
    (IF xUserId \notin UserRows THEN {404} ELSE {}) \cup
    (IF amount <= 0 THEN {400} ELSE {}) \cup
    (IF xUserId = recipientId THEN {400} ELSE {}) \cup
    (IF recipientId \notin UserRows THEN {404} ELSE {}) \cup
    (IF recipientId \in Banned THEN {banned} ELSE {})

\* the status documented for a failure code of handle_payment
EngineStatus(code) ==
    IF code = "INSUFFICIENT_FUNDS" THEN 402
    ELSE IF code \in {"SENDER_NOT_FOUND", "RECEIVER_NOT_FOUND",
                      "SENDER_BALANCE_NOT_FOUND"} THEN 404
    ELSE IF code \in {"INVALID_AMOUNT", "SELF_TRANSFER", "DUPLICATE_ORDERID"}
         THEN 400
    ELSE 500

\* the response made of the result of handle_payment has the documented
\* status, and 200 is answered for a success only
EngineAnswered ==
    PayRespond =>
       LET code == result[request.call].code
       IN IF code = "SUCCESS"
          THEN response'.op = "pay" /\ response'.status = 200
          ELSE /\ response'.op = "error"
               /\ response'.status = EngineStatus(code)

\* a request is answered before handle_payment exactly when something
\* documented is wrong with it, and then with a documented status
AdmitAnswered(banned) ==
    \A xUserId \in Payers, recipientId \in AccountIds, amount \in Amounts,
       orderid \in OrderIds :
       ~ENABLED ( /\ PayRequest(xUserId, recipientId, amount, orderid)
                  /\ LET e == AdmitStatuses(xUserId, recipientId, amount, banned)
                     IN ~ IF e = {} THEN request'.op = "pay"
                          ELSE /\ response'.op = "error"
                               /\ response'.status \in e )

\* C34 as stated: insufficient funds is answered 402; a missing or banned
\* recipient, a missing sender and a missing sender balance 404; an invalid
\* amount, a self-transfer and a duplicate order id 400; any other failure
\* of handle_payment 500; and 200 is answered only for a success.
C34_DocumentedStatuses ==
    [][EngineAnswered]_vars /\ [](AdmitAnswered(404))

\* C34, amended: as stated, except that a banned recipient is answered 403.
C34_StatusesBannedForbidden ==
    [][EngineAnswered]_vars /\ [](AdmitAnswered(403))

\* a payment to a banned recipient has been answered 403 after a payment
\* was answered for insufficient funds
C34_Witness ==
    /\ response = ErrorResponse(403, "FORBIDDEN")
    /\ \E c \in Calls : pc[c] = "done" /\ result[c].code = "INSUFFICIENT_FUNDS"

\* the error code documented for a failure code of handle_payment
DocumentedCode(code) ==
    IF code = "RECEIVER_NOT_FOUND" THEN "RECIPIENT_NOT_FOUND"
    ELSE IF code = "SENDER_BALANCE_NOT_FOUND" THEN "BALANCE_NOT_FOUND"
    ELSE code

\* C35: the code of an error response of POST /api/pay names the failure:
\* INVALID_AMOUNT, SELF_TRANSFER, DUPLICATE_ORDERID, INSUFFICIENT_FUNDS,
\* RECIPIENT_NOT_FOUND for a missing recipient and BALANCE_NOT_FOUND for a
\* missing balance row.
C35_DocumentedCodes ==
    [][ (PayRespond /\ result[request.call].code # "SUCCESS") =>
           response'.code = DocumentedCode(result[request.call].code)
      ]_vars

\* ---- the has-more flag ----------------------------------------------------

\* the response is the page at offset of the records matching, newest
\* first, and its has-more flag tells whether records matching lie beyond
PageOf(matching) ==
    /\ response'.hasMore = (request.offset + request.limit < response'.total)
    /\ response'.hasMore = (request.offset + request.limit < Cardinality(matching))
    /\ Len(response'.items) =
          Len(Range(OrderNewestFirst(matching), request.offset, request.limit))
    /\ \A i \in 1..Len(response'.items) :
          LET row == Range(OrderNewestFirst(matching), request.offset,
                           request.limit)[i]
          IN CreatedAt(response'.items[i]) = CreatedAt(row)

\* C36: GET /api/trx and GET /api/mut set the has-more flag exactly when
\* offset + limit is below the reported total, which is exactly when
\* matching records lie beyond the returned page, and the page holds the
\* records at positions offset .. offset + limit - 1 of the matching records
\* in newest-first order.
C36_HasMoreAndPage ==
    [][ /\ ListTransactionsFetch => PageOf(TransactionsOf(request.user))
        /\ ListMutationsFetch =>
              PageOf(MutationsMatching(request.user, request.type))
      ]_vars

\* ---- concurrent credits to a receiver without a balance row ---------------

\* Every call has been invoked at once and has passed lines 174-199: user 1
\* or user 2 pays 0.01 to another user, under a generated order id.
InitCredit ==
    /\ balances = InitialBalances
    /\ transactions = <<>>
    /\ mutations = <<>>
    /\ pc = [c \in Calls |-> "lock_sender"]
    /\ \E ss \in [Calls -> DOMAIN InitialBalances] :
       \E rs \in [Calls -> ActiveUsers] :
          /\ \A c \in Calls : ss[c] # rs[c]
          /\ args = [c \in Calls |->
                       [cid |-> c, sender |-> ss[c], receiver |-> rs[c],
                        amount |-> 10, orderid |-> FinalOrderId(Null, c)]]
    /\ v_sender_balance = [c \in Calls |-> Null]
    /\ v_receiver_balance = [c \in Calls |-> Null]
    /\ locks = [c \in Calls |-> {}]
    /\ pending = [c \in Calls |-> NoWrites]
    /\ result = [c \in Calls |-> NoResult]
    /\ timedout = {}
    /\ request = NoRequest
    /\ response = NoResponse
    /\ metrics = <<>>
    /\ recorded = <<>>

\* The calls run to their end on storage that does not fail.
NextCredit ==
    \/ \E c \in Calls : LockSender(c)
    \/ \E c \in Calls : LockReceiver(c)
    \/ \E c \in Calls : Write(c, 0)
    \/ \E c \in Calls : Commit(c)
    \/ \E c \in Calls : DeadlockAbort(c)

SpecCredit == InitCredit /\ [][NextCredit]_vars

\* C37: of concurrent calls that credit a receiver who had no balance row,
\* each made by a sender whose funds suffice, none fails; and when all
\* calls have returned the receiver has one row, whose amount is the sum of
\* the amounts credited to it.
C37_ConcurrentCreditsSucceed ==
    /\ [][ \A c \in Calls :
              ( /\ pc[c] = "write"
                /\ args[c].receiver \notin DOMAIN InitialBalances
                /\ v_sender_balance[c] # Null
                /\ Val(v_sender_balance[c]) >= args[c].amount
                /\ Returns(c) \/ Decided(c) ) => pc'[c] = "commit"
         ]_vars
    /\ [](\A u \in ActiveUsers \ DOMAIN InitialBalances :
             (\A c \in Calls : pc[c] = "done") =>
                LET credits == {i \in 1..Len(transactions) :
                                   transactions[i].receiver_id = u}
                IN credits # {} =>
                      /\ u \in DOMAIN balances
                      /\ balances[u] = 10 * Cardinality(credits))

\* ---- the chain of mutations ----------------------------------------------

\* the positions in mutations of the mutations of user u, oldest first
OwnMutations(u) == {i \in 1..Len(mutations) : mutations[i].user_id = u}

\* C38: the mutations of every user form a chain: the prior balance of the
\* first is the balance the user started with (zero without a row), the
\* prior balance of every later one is the resulting balance of the one
\* before it, and the resulting balance of the latest is the user's
\* persisted balance.
C38_MutationChain ==
    \A u \in ActiveUsers :
        LET own == OwnMutations(u)
        IN /\ \A i \in own :
                 LET earlier == {k \in own : k < i}
                 IN mutations[i].prev_balance =
                       IF earlier = {}
                       THEN (IF u \in DOMAIN InitialBalances
                             THEN InitialBalances[u] ELSE 0)
                       ELSE mutations[CHOOSE k \in earlier :
                                         \A j \in earlier : j <= k].balance
           /\ own # {} =>
                 /\ u \in DOMAIN balances
                 /\ balances[u] =
                       mutations[CHOOSE k \in own : \A j \in own : j <= k].balance

\* ---- PerformanceMetrics ---------------------------------------------------

\* the most samples recorded between two resets
MaxSamples == 3

\* the endpoints whose requests are recorded, and their durations in ms
Endpoints == {"/api/balance", "/api/metrics"}
Durations == {0, 2}

\* what the handler of a request does: it returns, it throws, or the 30 s
\* timer fires first
Outcomes == {"returned", "threw", "timeout"}

\* the headers of the requests that reach createApiHandler: x-user-id absent,
\* of a verified user, or of a banned one, with x-api-key-validated 'true'
MeteredUserIds == {Null, Some(1), Some(4)}

\* JavaScript's Infinity, above every duration
Infinity == 2147483647

MathMin(a, b) == IF a < b THEN a ELSE b
MathMax(a, b) == IF a > b THEN a ELSE b

\* the entry of an endpoint that has none yet
NoEntry ==
    [count |-> 0, totalDuration |-> 0, minDuration |-> Infinity,
     maxDuration |-> 0, errorCount |-> 0]

\* recordRequest that leaves maxDuration as it was
recordRequest_nomax(m, endpoint, duration, success) ==
    LET existing == IF endpoint \in DOMAIN m THEN m[endpoint] ELSE NoEntry
        updated == [count |-> existing.count + 1,
                    totalDuration |-> existing.totalDuration + duration,
                    minDuration |-> MathMin(existing.minDuration, duration),
                    maxDuration |-> existing.maxDuration,
                    errorCount |-> existing.errorCount + (IF success THEN 0 ELSE 1)]
    IN (endpoint :> updated) @@ m

\* PerformanceMetrics.recordRequest on the map m
recordRequest(m, endpoint, duration, success) ==
    LET existing == IF endpoint \in DOMAIN m THEN m[endpoint] ELSE NoEntry
        updated == [count |-> existing.count + 1,
                    totalDuration |-> existing.totalDuration + duration,
                    minDuration |-> MathMin(existing.minDuration, duration),
                    maxDuration |-> MathMax(existing.maxDuration, duration),
                    errorCount |-> existing.errorCount + (IF success THEN 0 ELSE 1)]
    IN (endpoint :> updated) @@ m

Sample(endpoint, duration, success) ==
    [endpoint |-> endpoint, duration |-> duration, success |-> success]

\* everything but the metrics and the last response
unmetered == <<persisted, pc, args, v_sender_balance, v_receiver_balance, locks,
               pending, result, timedout, request>>

\* a call of PerformanceMetrics.recordRequest
RecordRequest(endpoint, duration, success) ==
    /\ Len(recorded) < MaxSamples
    /\ metrics' = recordRequest(metrics, endpoint, duration, success)
    /\ recorded' = Append(recorded, Sample(endpoint, duration, success))
    /\ UNCHANGED <<unmetered, response>>

\* a call of PerformanceMetrics.resetMetrics
ResetMetrics ==
    /\ metrics' = <<>>
    /\ recorded' = <<>>
    /\ UNCHANGED <<unmetered, response>>

\* createApiHandler on a request that fails its lines 352-383: the error is
\* thrown before the handler is called, and the catch block records it
ApiRequestRefused(endpoint, xUserId, duration) ==
    /\ Authenticate(xUserId, Some("true")) # Null
    /\ Len(recorded) < MaxSamples
    /\ metrics' = recordRequest(metrics, endpoint, duration, FALSE)
    /\ recorded' = Append(recorded, Sample(endpoint, duration, FALSE))
    /\ response' = Val(Authenticate(xUserId, Some("true")))
    /\ UNCHANGED unmetered

\* createApiHandler on a request that passes lines 352-383: the handler is
\* raced against the timer, and the request is recorded after the race
\* (lines 400-407) or in the catch block (lines 423-430)
ApiRequestHandled(endpoint, xUserId, outcome, duration) ==
    /\ Authenticate(xUserId, Some("true")) = Null
    /\ Len(recorded) < MaxSamples
    /\ metrics' = recordRequest(metrics, endpoint, duration, outcome = "returned")
    /\ recorded' = Append(recorded, Sample(endpoint, duration, outcome = "returned"))
    /\ response' = IF outcome = "returned"
                   THEN [op |-> "handled", status |-> 200]
                   ELSE ErrorResponse(500, "INTERNAL_ERROR")
    /\ UNCHANGED unmetered

\* DELETE /api/metrics by a caller that passes lines 352-383: the handler
\* resets the metrics, and the request itself is recorded after it
MetricsDelete(xUserId, duration) ==
    /\ Authenticate(xUserId, Some("true")) = Null
    /\ metrics' = recordRequest(<<>>, "/api/metrics", duration, TRUE)
    /\ recorded' = <<Sample("/api/metrics", duration, TRUE)>>
    /\ response' = [op |-> "handled", status |-> 200]
    /\ UNCHANGED unmetered

NextMetrics ==
    \/ \E endpoint \in Endpoints, duration \in Durations, success \in BOOLEAN :
          RecordRequest(endpoint, duration, success)
    \/ ResetMetrics
    \/ \E endpoint \in Endpoints, xUserId \in MeteredUserIds, duration \in Durations :
          ApiRequestRefused(endpoint, xUserId, duration)
    \/ \E endpoint \in Endpoints, xUserId \in MeteredUserIds, outcome \in Outcomes,
          duration \in Durations :
          ApiRequestHandled(endpoint, xUserId, outcome, duration)
    \/ \E xUserId \in MeteredUserIds, duration \in Durations :
          MetricsDelete(xUserId, duration)

SpecMetrics == Init /\ [][NextMetrics]_vars

\* the samples of an endpoint among those recorded since the last reset
SamplesOf(endpoint) == {i \in 1..Len(recorded) : recorded[i].endpoint = endpoint}

RECURSIVE SumDurations(_)
SumDurations(is) ==
    IF is = {} THEN 0
    ELSE LET i == CHOOSE x \in is : TRUE
         IN recorded[i].duration + SumDurations(is \ {i})

\* the entries are those of the endpoints recorded since the last reset,
\* and each has count >= 1, 0 <= errorCount <= count, minDuration <=
\* maxDuration and the sum of its recorded durations as totalDuration
EntriesSound ==
    /\ DOMAIN metrics = {recorded[i].endpoint : i \in 1..Len(recorded)}
    /\ \A e \in DOMAIN metrics :
          /\ metrics[e].count >= 1
          /\ metrics[e].count = Cardinality(SamplesOf(e))
          /\ metrics[e].errorCount >= 0
          /\ metrics[e].errorCount <= metrics[e].count
          /\ metrics[e].minDuration <= metrics[e].maxDuration
          /\ metrics[e].totalDuration = SumDurations(SamplesOf(e))

\* the step records exactly one sample, of this endpoint, duration and flag
RecordsOne(endpoint, duration, success) ==
    /\ recorded' = Append(recorded, Sample(endpoint, duration, success))
    /\ metrics'[endpoint].count =
          (IF endpoint \in DOMAIN metrics THEN metrics[endpoint].count ELSE 0) + 1

\* resetMetrics leaves no entries, and a request that createApiHandler
\* passes to its handler records one sample, failed exactly when the
\* handler threw or timed out
ResetAndHandledSound ==
    /\ ResetMetrics => DOMAIN metrics' = {}
    /\ \A endpoint \in Endpoints, xUserId \in MeteredUserIds, outcome \in Outcomes,
          duration \in Durations :
          ApiRequestHandled(endpoint, xUserId, outcome, duration) =>
             RecordsOne(endpoint, duration, outcome \notin {"threw", "timeout"})

\* a request that createApiHandler refuses records one sample with this flag
RefusedRecords(success) ==
    \A endpoint \in Endpoints, xUserId \in MeteredUserIds, duration \in Durations :
       ApiRequestRefused(endpoint, xUserId, duration) =>
          RecordsOne(endpoint, duration, success)

\* C39 as stated: the entries are sound, resetMetrics leaves none, and every
\* request handled by createApiHandler records exactly one sample that is
\* failed exactly when the handler threw or timed out; a request whose
\* handler was never called is therefore recorded as a success.
C39_MetricsAsStated ==
    /\ [](EntriesSound)
    /\ [][ResetAndHandledSound /\ RefusedRecords(TRUE)]_vars

\* C39, amended: as stated, except that the sample is failed exactly when
\* createApiHandler's own authentication failed, the handler threw, or it
\* timed out.
C39_MetricsSound ==
    /\ [](EntriesSound)
    /\ [][ResetAndHandledSound /\ RefusedRecords(FALSE)]_vars

\* an endpoint has a failed and a successful sample of different durations
C39_Witness ==
    \E e \in DOMAIN metrics :
        /\ metrics[e].count = 2
        /\ metrics[e].errorCount = 1
        /\ metrics[e].minDuration < metrics[e].maxDuration
        /\ response = ErrorResponse(401, "UNAUTHORIZED")
====
